---- MODULE Spec2Model ----
(***************************************************************************)
(* Model of rag_core.py: the ingestion-and-retrieval vector store.         *)
(*                                                                         *)
(* Durable state: the FAISS index file (INDEX_PATH) and the JSON-lines     *)
(* metadata file (META_PATH).  Two ingest_directory callers ("w1", "w2")   *)
(* and one retrieve caller walk through the statements of the functions.  *)
(* Texts are sequences of one-character strings.                           *)
(***************************************************************************)
EXTENDS Integers, Sequences, FiniteSets, TLC

\* ---------- bounds ----------
\* an ingest call is started only while its units fit: the in-memory index
\* and the metadata file plus the new units stay within MaxStore entries
MaxStore == 3
\* longest text and largest max_chars given to chunk_text on its own
MaxLen == 5
MaxM == 3
\* largest k passed to retrieve
MaxK == 3

\* ---------- config (rag_core.py lines 7-13) ----------
\* DIMENSIONS is 1536 in the source; the model keeps the role (the width of
\* every embedding vector) at a width TLC can enumerate.
DIMENSIONS == 2
\* chunk_text's default max_chars is 1800 in the source; the model scales it
\* to the length of the model's documents so that one document can give
\* several chunks.
MAX_CHARS == 2

Writers == {"w1", "w2"}

Whitespace == {" "}

Min(a, b) == IF a < b THEN a ELSE b

\* ---------- helpers ----------
\* str.strip(): drop leading and trailing whitespace
RECURSIVE lstrip(_)
lstrip(s) ==
    IF s = <<>> THEN s
    ELSE IF Head(s) \in Whitespace THEN lstrip(Tail(s)) ELSE s

RECURSIVE rstrip(_)
rstrip(s) ==
    IF s = <<>> THEN s
    ELSE IF s[Len(s)] \in Whitespace THEN rstrip(SubSeq(s, 1, Len(s) - 1)) ELSE s

strip(s) == rstrip(lstrip(s))

\* Python slice text[i:j] for 0 <= i <= j (0-based, end exclusive, clipped)
Slice(s, i, j) == SubSeq(s, i + 1, Min(j, Len(s)))

\* variant: the whitespace-only slices are not filtered out
chunk_text_NoFilter(text, max_chars) ==
    LET t == strip(text)
        cnt == (Len(t) + max_chars - 1) \div max_chars
        chunks == [j \in 1..cnt |-> Slice(t, (j - 1) * max_chars, (j - 1) * max_chars + max_chars)]
    IN  IF t = <<>> THEN <<>> ELSE chunks

\* variant: every slice is stored trimmed
chunk_text_Trimmed(text, max_chars) ==
    LET t == strip(text)
        cnt == (Len(t) + max_chars - 1) \div max_chars
        chunks == [j \in 1..cnt |-> strip(Slice(t, (j - 1) * max_chars, (j - 1) * max_chars + max_chars))]
    IN  IF t = <<>> THEN <<>>
        ELSE SelectSeq(chunks, LAMBDA c : c # <<>>)

\* chunk_text(text, max_chars)
chunk_text(text, max_chars) ==
    LET t == strip(text)
        cnt == (Len(t) + max_chars - 1) \div max_chars
        chunks == [j \in 1..cnt |-> Slice(t, (j - 1) * max_chars, (j - 1) * max_chars + max_chars)]
    IN  IF t = <<>> THEN <<>>
        ELSE SelectSeq(chunks, LAMBDA c : strip(c) # <<>>)

\* ---------- the file system the directory walk sees ----------
Unreadable == <<"\\0">>

TxtPath == "a.txt"
PdfPath == "b.pdf"

\* file contents offered to an ingest call: an undecodable file, a blank
\* file, a one-chunk file, a file that splits into two chunks
Contents == { Unreadable, <<" ">>, <<" ", "a">>, <<"a", "b", "c">> }

File(p, c) == [path |-> p, content |-> c]

\* glob.glob(doc_dir/**/*) filtered by isfile: zero, one or two files, in
\* the order the walk yields them
Listings ==
    { <<>> }
    \cup { <<File(TxtPath, c)>> : c \in Contents }
    \cup { <<File(PdfPath, c)>> : c \in { Unreadable, <<" ", "a">> } }
    \cup { <<File(TxtPath, c), File(PdfPath, <<"a", "b", "c">>)>> : c \in { Unreadable, <<" ", "a">> } }

\* load_text_from_path(path): both branches return the text, or "" when the
\* read raises
load_text_from_path(f) ==
    IF f.content = Unreadable THEN <<>> ELSE f.content

\* ---------- embedding ----------
Abs(x) == IF x < 0 THEN -x ELSE x

RECURSIVE SumAbs(_)
SumAbs(v) == IF v = <<>> THEN 0 ELSE Abs(Head(v)) + SumAbs(Tail(v))

\* the provider's raw answer for one text (client.embeddings.create): a
\* vector of DIMENSIONS numbers, here along one axis with a length that
\* depends on the text
Provider(text) ==
    [i \in 1..DIMENSIONS |-> IF i = (Len(text) % DIMENSIONS) + 1 THEN Len(text) + 1 ELSE 0]

\* _normalize: divide each row by its norm (the 1e-12 keeps a zero row zero);
\* the rows of the model lie along an axis, where the norm is the sum of the
\* absolute values
_normalize(v) ==
    LET n == SumAbs(v) IN [i \in 1..Len(v) |-> IF n = 0 THEN 0 ELSE v[i] \div n]

\* embed_texts(texts) when the provider answers; each row remembers the text
\* it was computed from (field "of", a history field used to state alignment)
embed_texts(texts) ==
    IF texts = <<>> THEN <<>>
    ELSE [i \in 1..Len(texts) |-> [v |-> _normalize(Provider(texts[i])), of |-> texts[i]]]

\* ---------- persistence ----------
NoIndexFile == [exists |-> FALSE, d |-> 0, xb |-> <<>>]
NoMetaFile == [exists |-> FALSE, lines |-> <<>>]

\* faiss.IndexFlatIP(dim)
IndexFlatIP(dim) == [d |-> dim, xb |-> <<>>]

\* faiss.read_index(INDEX_PATH)
read_index(file) == [d |-> file.d, xb |-> file.xb]

\* faiss.write_index(index, INDEX_PATH): the file is replaced by the whole index
write_index(idx) == [exists |-> TRUE, d |-> idx.d, xb |-> idx.xb]

\* the width of a batch of rows (np.zeros((0, DIMENSIONS)) for an empty batch)
Width(vs) == IF vs = <<>> THEN DIMENSIONS ELSE Len(vs[1].v)

\* index.add(vecs), for rows of the index's width
index_add(idx, vs) == [d |-> idx.d, xb |-> idx.xb \o vs]

\* json.dumps(r, ensure_ascii=False) + "\n": one line of the metadata file
Dumps(r) == [json |-> <<r.source, r.text>>, nl |-> TRUE]

\* a line json.loads accepts: one whole JSON document (a line cut short by a
\* killed writer holds only the start of one, two documents run together are
\* "extra data")
LineOk(line) == Len(line.json) = 2

\* json.loads(line), for a line it accepts
Loads(line) == [source |-> line.json[1], text |-> line.json[2]]

\* variant: the existing index file is ignored and a fresh index is made
_ensure_index_AlwaysNew(file, dim) == IndexFlatIP(dim)

\* _ensure_index(dim)
_ensure_index(file, dim) ==
    IF file.exists THEN read_index(file) ELSE IndexFlatIP(dim)

\* _append_metadata(records): open(META_PATH, "a") creates the file if needed
\* (the new text goes right after the last byte: when the last line has no
\* newline the first new record continues that line)
_append_metadata(file, records) ==
    LET new == [i \in 1..Len(records) |-> Dumps(records[i])]
        n == Len(file.lines)
    IN  IF n > 0 /\ ~file.lines[n].nl /\ new # <<>>
        THEN [exists |-> TRUE,
              lines |-> SubSeq(file.lines, 1, n - 1)
                        \o << [json |-> file.lines[n].json \o new[1].json, nl |-> TRUE] >>
                        \o Tail(new)]
        ELSE [exists |-> TRUE, lines |-> file.lines \o new]

\* _read_metadata() returns (no json.loads raises)
MetadataReadable(file) == \A i \in 1..Len(file.lines) : LineOk(file.lines[i])

\* _read_metadata(), when it returns
_read_metadata(file) ==
    IF ~file.exists THEN <<>>
    ELSE [i \in 1..Len(file.lines) |-> Loads(file.lines[i])]


\* ---------- search ----------
RECURSIVE Dot(_, _)
Dot(a, b) ==
    IF a = <<>> \/ b = <<>> THEN 0 ELSE Head(a) * Head(b) + Dot(Tail(a), Tail(b))

\* the score FAISS reports for a filler entry (it reports the lowest float)
NegInf == -2

\* variant: the search ranks the lowest inner product first
index_search_Ascending(idx, q, kk) ==
    LET n == Len(idx.xb)
        score(i) == Dot(q, idx.xb[i + 1].v)
        rank(i) == Cardinality({ j \in 0..(n - 1) :
                        score(j) < score(i) \/ (score(j) = score(i) /\ j < i) })
        at(pos) == CHOOSE i \in 0..(n - 1) : rank(i) = pos - 1
    IN  [ D |-> [pos \in 1..kk |-> IF pos <= n THEN score(at(pos)) ELSE NegInf],
          I |-> [pos \in 1..kk |-> IF pos <= n THEN at(pos) ELSE -1] ]

\* index.search(qv, k) for one query row: D and I, both of length k, ranked
\* by inner product, the lower ordinal first among equal scores; when k
\* exceeds the number of stored vectors the tail is filled with ordinal -1
index_search(idx, q, kk) ==
    LET n == Len(idx.xb)
        score(i) == Dot(q, idx.xb[i + 1].v)
        rank(i) == Cardinality({ j \in 0..(n - 1) :
                        score(j) > score(i) \/ (score(j) = score(i) /\ j < i) })
        at(pos) == CHOOSE i \in 0..(n - 1) : rank(i) = pos - 1
    IN  [ D |-> [pos \in 1..kk |-> IF pos <= n THEN score(at(pos)) ELSE NegInf],
          I |-> [pos \in 1..kk |-> IF pos <= n THEN at(pos) ELSE -1] ]

\* ---------- state ----------
VARIABLES
    indexFile,      \* store/index.faiss
    metaFile,       \* store/meta.jsonl
    pc,             \* pc[w]: where caller w is inside ingest_directory
    index,          \* index[w]: the in-memory FAISS index of the call
    files,          \* files[w]: the listing the directory walk produced
    all_chunks,     \* all_chunks[w]
    new_records,    \* new_records[w]
    vecs,           \* vecs[w]
    ret,            \* ret[w]: the value the call returned
    err,            \* err[w]: the exception the call raised, or "none"
    called,         \* called[w]: the call reached client.embeddings.create
    pre,            \* pre[w]: the two files as they were when the call began
    rpc,            \* where the retrieve caller is inside retrieve
    query, k,       \* arguments of the retrieve call
    rindex,         \* retrieve's index
    metadata,       \* retrieve's metadata
    qv,             \* retrieve's query vector
    hits,           \* retrieve's result
    rerr,           \* the exception retrieve raised, or "none"
    rcalled,        \* retrieve reached client.embeddings.create
    rread,          \* retrieve reached _read_metadata
    rpre,           \* the two files as they were when retrieve began
    cpc,            \* where the chunk_text caller is: "off", "input", "output"
    ctext, cmax,    \* arguments of the chunk_text call
    cout            \* what the chunk_text call returned

ivars == <<pc, index, files, all_chunks, new_records, vecs, ret, err, called, pre>>
rvars == <<rpc, query, k, rindex, metadata, qv, hits, rerr, rcalled, rread, rpre>>
cvars == <<cpc, ctext, cmax, cout>>
store == <<indexFile, metaFile>>
vars == <<indexFile, metaFile, pc, index, files, all_chunks, new_records, vecs,
          ret, err, called, pre, rpc, query, k, rindex, metadata, qv, hits, rerr,
          rcalled, rread, rpre, cpc, ctext, cmax, cout>>

Snapshot == [index |-> indexFile, meta |-> metaFile]
NoSnapshot == [index |-> NoIndexFile, meta |-> NoMetaFile]

Queries == { <<"a">>, <<"a", "b">>, <<"a", "b", "c">> }

\* no call is in progress
CallsIdle ==
    /\ pc = [w \in Writers |-> "idle"]
    /\ index = [w \in Writers |-> IndexFlatIP(0)]
    /\ files = [w \in Writers |-> <<>>]
    /\ all_chunks = [w \in Writers |-> <<>>]
    /\ new_records = [w \in Writers |-> <<>>]
    /\ vecs = [w \in Writers |-> <<>>]
    /\ ret = [w \in Writers |-> 0]
    /\ err = [w \in Writers |-> "none"]
    /\ called = [w \in Writers |-> FALSE]
    /\ pre = [w \in Writers |-> NoSnapshot]
    /\ rpc = "idle"
    /\ query = <<>>
    /\ k = 0
    /\ rindex = IndexFlatIP(0)
    /\ metadata = <<>>
    /\ qv = <<>>
    /\ hits = <<>>
    /\ rerr = "none"
    /\ rcalled = FALSE
    /\ rread = FALSE
    /\ rpre = NoSnapshot

\* no stand-alone chunk_text call is being looked at
ChunkerOff ==
    /\ cpc = "off"
    /\ ctext = <<>>
    /\ cmax = 0
    /\ cout = <<>>

Init ==
    /\ indexFile = NoIndexFile
    /\ metaFile = NoMetaFile
    /\ CallsIdle
    /\ ChunkerOff

\* ---------- ingest_directory ----------
\* variant: the records of a file are put in front of the records so far
RECURSIVE ScanLoop_Prepend(_, _, _, _)
ScanLoop_Prepend(fs, i, chunks_acc, records_acc) ==
    IF i > Len(fs) THEN [all_chunks |-> chunks_acc, new_records |-> records_acc]
    ELSE LET path == fs[i].path
             text == load_text_from_path(fs[i])
             chunks == chunk_text(text, MAX_CHARS)
         IN  ScanLoop_Prepend(fs, i + 1,
                      chunks_acc \o chunks,
                      [j \in 1..Len(chunks) |-> [source |-> path, text |-> chunks[j]]] \o records_acc)

\* variant: the loop stops at the first file that gives no chunk
RECURSIVE ScanLoop_BreakOnEmpty(_, _, _, _)
ScanLoop_BreakOnEmpty(fs, i, chunks_acc, records_acc) ==
    IF i > Len(fs) THEN [all_chunks |-> chunks_acc, new_records |-> records_acc]
    ELSE LET path == fs[i].path
             text == load_text_from_path(fs[i])
             chunks == chunk_text(text, MAX_CHARS)
         IN  IF chunks = <<>>
             THEN [all_chunks |-> chunks_acc, new_records |-> records_acc]
             ELSE ScanLoop_BreakOnEmpty(fs, i + 1,
                      chunks_acc \o chunks,
                      records_acc \o [j \in 1..Len(chunks) |-> [source |-> path, text |-> chunks[j]]])

\* the loop of lines 81-89 from file number i on
RECURSIVE ScanLoop(_, _, _, _)
ScanLoop(fs, i, chunks_acc, records_acc) ==
    IF i > Len(fs) THEN [all_chunks |-> chunks_acc, new_records |-> records_acc]
    ELSE LET path == fs[i].path
             text == load_text_from_path(fs[i])
             chunks == chunk_text(text, MAX_CHARS)
         IN  ScanLoop(fs, i + 1,
                      chunks_acc \o chunks,
                      records_acc \o [j \in 1..Len(chunks) |-> [source |-> path, text |-> chunks[j]]])

\* variant: a missing index file is created, empty, when the index is opened
EnsureIndex_CreatesFile(w) ==
    /\ pc[w] = "idle"
    /\ pc' = [pc EXCEPT ![w] = "loaded"]
    /\ index' = [index EXCEPT ![w] = _ensure_index(indexFile, DIMENSIONS)]
    /\ pre' = [pre EXCEPT ![w] = Snapshot]
    /\ indexFile' = IF indexFile.exists THEN indexFile ELSE write_index(IndexFlatIP(DIMENSIONS))
    /\ UNCHANGED <<metaFile, files, all_chunks, new_records, vecs, ret, err, called, rvars, cvars>>

\* line 76: index = _ensure_index(DIMENSIONS)
EnsureIndex(w) ==
    /\ pc[w] = "idle"
    /\ pc' = [pc EXCEPT ![w] = "loaded"]
    /\ index' = [index EXCEPT ![w] = _ensure_index(indexFile, DIMENSIONS)]
    /\ pre' = [pre EXCEPT ![w] = Snapshot]
    /\ UNCHANGED <<store, files, all_chunks, new_records, vecs, ret, err, called, rvars, cvars>>

\* variant: the records are appended to the metadata file before the
\* embedding call
Scan_AppendsEarly(w) ==
    /\ pc[w] = "loaded"
    /\ \E fs \in Listings :
         LET r == ScanLoop(fs, 1, <<>>, <<>>) IN
         /\ Len(index[w].xb) + Len(r.all_chunks) <= MaxStore
         /\ Len(metaFile.lines) + Len(r.all_chunks) <= MaxStore
         /\ files' = [files EXCEPT ![w] = fs]
         /\ all_chunks' = [all_chunks EXCEPT ![w] = r.all_chunks]
         /\ new_records' = [new_records EXCEPT ![w] = r.new_records]
         /\ IF r.all_chunks = <<>>
            THEN /\ ret' = [ret EXCEPT ![w] = 0]
                 /\ pc' = [pc EXCEPT ![w] = "done"]
                 /\ metaFile' = metaFile
            ELSE /\ ret' = ret
                 /\ pc' = [pc EXCEPT ![w] = "scanned"]
                 /\ metaFile' = _append_metadata(metaFile, r.new_records)
    /\ UNCHANGED <<indexFile, index, vecs, err, called, pre, rvars, cvars>>

\* variant: no early return when nothing was collected
Scan_NoEarlyReturn(w) ==
    /\ pc[w] = "loaded"
    /\ \E fs \in Listings :
         LET r == ScanLoop(fs, 1, <<>>, <<>>) IN
         /\ Len(index[w].xb) + Len(r.all_chunks) <= MaxStore
         /\ Len(metaFile.lines) + Len(r.all_chunks) <= MaxStore
         /\ files' = [files EXCEPT ![w] = fs]
         /\ all_chunks' = [all_chunks EXCEPT ![w] = r.all_chunks]
         /\ new_records' = [new_records EXCEPT ![w] = r.new_records]
         /\ ret' = ret
         /\ pc' = [pc EXCEPT ![w] = "scanned"]
    /\ UNCHANGED <<store, index, vecs, err, called, pre, rvars, cvars>>

\* variant: records already present in the metadata file are not stored again
Scan_Dedup(w) ==
    /\ pc[w] = "loaded"
    /\ \E fs \in Listings :
         LET r0 == ScanLoop(fs, 1, <<>>, <<>>)
             old == _read_metadata(metaFile)
             fresh == SelectSeq(r0.new_records, LAMBDA x : \A i \in 1..Len(old) : old[i] # x)
             r == [all_chunks |-> [i \in 1..Len(fresh) |-> fresh[i].text], new_records |-> fresh]
         IN
         /\ Len(index[w].xb) + Len(r.all_chunks) <= MaxStore
         /\ Len(metaFile.lines) + Len(r.all_chunks) <= MaxStore
         /\ files' = [files EXCEPT ![w] = fs]
         /\ all_chunks' = [all_chunks EXCEPT ![w] = r.all_chunks]
         /\ new_records' = [new_records EXCEPT ![w] = r.new_records]
         /\ IF r.all_chunks = <<>>
            THEN /\ ret' = [ret EXCEPT ![w] = 0]
                 /\ pc' = [pc EXCEPT ![w] = "done"]
            ELSE /\ ret' = ret
                 /\ pc' = [pc EXCEPT ![w] = "scanned"]
    /\ UNCHANGED <<store, index, vecs, err, called, pre, rvars, cvars>>

\* lines 77-92: walk the directory, chunk every file, return 0 when there
\* is nothing to store
Scan(w) ==
    /\ pc[w] = "loaded"
    /\ \E fs \in Listings :
         LET r == ScanLoop(fs, 1, <<>>, <<>>) IN
         /\ Len(index[w].xb) + Len(r.all_chunks) <= MaxStore
         /\ Len(metaFile.lines) + Len(r.all_chunks) <= MaxStore
         /\ files' = [files EXCEPT ![w] = fs]
         /\ all_chunks' = [all_chunks EXCEPT ![w] = r.all_chunks]
         /\ new_records' = [new_records EXCEPT ![w] = r.new_records]
         /\ IF r.all_chunks = <<>>
            THEN /\ ret' = [ret EXCEPT ![w] = 0]
                 /\ pc' = [pc EXCEPT ![w] = "done"]
            ELSE /\ ret' = ret
                 /\ pc' = [pc EXCEPT ![w] = "scanned"]
    /\ UNCHANGED <<store, index, vecs, err, called, pre, rvars, cvars>>

\* line 94: vecs = embed_texts(all_chunks), the provider answers
Embed(w) ==
    /\ pc[w] = "scanned"
    /\ vecs' = [vecs EXCEPT ![w] = embed_texts(all_chunks[w])]
    /\ called' = [called EXCEPT ![w] = (all_chunks[w] # <<>>)]
    /\ pc' = [pc EXCEPT ![w] = "embedded"]
    /\ UNCHANGED <<store, index, files, all_chunks, new_records, ret, err, pre, rvars, cvars>>

\* line 94, the provider call raises: the exception leaves ingest_directory
EmbedFail(w) ==
    /\ pc[w] = "scanned"
    /\ all_chunks[w] # <<>>
    /\ called' = [called EXCEPT ![w] = TRUE]
    /\ err' = [err EXCEPT ![w] = "EmbeddingProviderError"]
    /\ pc' = [pc EXCEPT ![w] = "raised"]
    /\ UNCHANGED <<store, index, files, all_chunks, new_records, vecs, ret, pre, rvars, cvars>>

\* line 95: index.add(vecs); FAISS asserts that the rows have the index's
\* width
Add(w) ==
    /\ pc[w] = "embedded"
    /\ IF Width(vecs[w]) # index[w].d
       THEN /\ err' = [err EXCEPT ![w] = "AssertionError"]
            /\ pc' = [pc EXCEPT ![w] = "raised"]
            /\ index' = index
       ELSE /\ index' = [index EXCEPT ![w] = index_add(index[w], vecs[w])]
            /\ pc' = [pc EXCEPT ![w] = "added"]
            /\ err' = err
    /\ UNCHANGED <<store, files, all_chunks, new_records, vecs, ret, called, pre, rvars, cvars>>

\* variant: the records are appended first and the index is persisted after
\* them
WriteIndex_AfterAppend(w) ==
    /\ pc[w] = "added"
    /\ metaFile' = _append_metadata(metaFile, new_records[w])
    /\ indexFile' = write_index(index[w])
    /\ pc' = [pc EXCEPT ![w] = "appended"]
    /\ UNCHANGED <<index, files, all_chunks, new_records, vecs, ret, err, called, pre, rvars, cvars>>

\* variant: the new vectors are appended to whatever the index file holds
\* at the time of the write
WriteIndex_Merging(w) ==
    /\ pc[w] = "added"
    /\ indexFile' = [exists |-> TRUE, d |-> index[w].d, xb |-> indexFile.xb \o vecs[w]]
    /\ pc' = [pc EXCEPT ![w] = "written"]
    /\ UNCHANGED <<metaFile, index, files, all_chunks, new_records, vecs, ret, err, called, pre, rvars, cvars>>

\* lines 97-98: faiss.write_index(index, INDEX_PATH)
WriteIndex(w) ==
    /\ pc[w] = "added"
    /\ indexFile' = write_index(index[w])
    /\ pc' = [pc EXCEPT ![w] = "written"]
    /\ UNCHANGED <<metaFile, index, files, all_chunks, new_records, vecs, ret, err, called, pre, rvars, cvars>>

\* lines 97-98 raise before the file is replaced (the directory or the file
\* cannot be opened for writing)
WriteIndexFail(w) ==
    /\ pc[w] = "added"
    /\ err' = [err EXCEPT ![w] = "OSError"]
    /\ pc' = [pc EXCEPT ![w] = "raised"]
    /\ UNCHANGED <<store, index, files, all_chunks, new_records, vecs, ret, called, pre, rvars, cvars>>

\* line 99: _append_metadata(new_records)
AppendMetadata(w) ==
    /\ pc[w] = "written"
    /\ metaFile' = _append_metadata(metaFile, new_records[w])
    /\ pc' = [pc EXCEPT ![w] = "appended"]
    /\ UNCHANGED <<indexFile, index, files, all_chunks, new_records, vecs, ret, err, called, pre, rvars, cvars>>

\* line 99 raises after n complete lines reached the file (n = 0: the file
\* could not be opened)
AppendMetadataFail(w) ==
    /\ pc[w] = "written"
    /\ \E n \in 0..(Len(new_records[w]) - 1) :
         metaFile' = IF n = 0 THEN metaFile
                     ELSE _append_metadata(metaFile, SubSeq(new_records[w], 1, n))
    /\ err' = [err EXCEPT ![w] = "OSError"]
    /\ pc' = [pc EXCEPT ![w] = "raised"]
    /\ UNCHANGED <<indexFile, index, files, all_chunks, new_records, vecs, ret, called, pre, rvars, cvars>>

\* variant: the call returns the size of the whole index
ReturnCount_Total(w) ==
    /\ pc[w] = "appended"
    /\ ret' = [ret EXCEPT ![w] = Len(index[w].xb)]
    /\ pc' = [pc EXCEPT ![w] = "done"]
    /\ UNCHANGED <<store, index, files, all_chunks, new_records, vecs, err, called, pre, rvars, cvars>>

\* line 99, the process is killed while writing: n complete lines and the
\* start of the next one, with no newline, are in the file
CrashInAppend(w) ==
    /\ pc[w] = "written"
    /\ \E n \in 0..(Len(new_records[w]) - 1) :
         LET whole == _append_metadata(metaFile, SubSeq(new_records[w], 1, n))
             torn == [json |-> <<new_records[w][n + 1].source>>, nl |-> FALSE]
             last == Len(whole.lines)
         IN  metaFile' =
                IF last > 0 /\ ~whole.lines[last].nl
                THEN [exists |-> TRUE,
                      lines |-> SubSeq(whole.lines, 1, last - 1)
                                \o << [json |-> whole.lines[last].json \o torn.json, nl |-> FALSE] >>]
                ELSE [exists |-> TRUE, lines |-> whole.lines \o <<torn>>]
    /\ err' = [err EXCEPT ![w] = "Killed"]
    /\ pc' = [pc EXCEPT ![w] = "raised"]
    /\ UNCHANGED <<indexFile, index, files, all_chunks, new_records, vecs, ret, called, pre, rvars, cvars>>

\* line 100: return len(new_records)
ReturnCount(w) ==
    /\ pc[w] = "appended"
    /\ ret' = [ret EXCEPT ![w] = Len(new_records[w])]
    /\ pc' = [pc EXCEPT ![w] = "done"]
    /\ UNCHANGED <<store, index, files, all_chunks, new_records, vecs, err, called, pre, rvars, cvars>>

\* the caller has the result (or the exception) and the call's frame is gone
Leave(w) ==
    /\ pc[w] \in {"done", "raised"}
    /\ pc' = [pc EXCEPT ![w] = "idle"]
    /\ index' = [index EXCEPT ![w] = IndexFlatIP(0)]
    /\ files' = [files EXCEPT ![w] = <<>>]
    /\ all_chunks' = [all_chunks EXCEPT ![w] = <<>>]
    /\ new_records' = [new_records EXCEPT ![w] = <<>>]
    /\ vecs' = [vecs EXCEPT ![w] = <<>>]
    /\ ret' = [ret EXCEPT ![w] = 0]
    /\ err' = [err EXCEPT ![w] = "none"]
    /\ called' = [called EXCEPT ![w] = FALSE]
    /\ pre' = [pre EXCEPT ![w] = NoSnapshot]
    /\ UNCHANGED <<store, rvars, cvars>>


\* ---------- retrieve ----------
\* variant: only the upper bound is tested, so a negative ordinal indexes the
\* metadata list from its end
RECURSIVE HitsLoop_NoLowerBound(_, _, _, _, _)
HitsLoop_NoLowerBound(I, D, md, j, acc) ==
    IF j > Len(I) THEN acc
    ELSE IF I[j] < Len(md) /\ Len(md) + I[j] >= 0
         THEN LET at == IF I[j] < 0 THEN Len(md) + I[j] + 1 ELSE I[j] + 1
              IN  HitsLoop_NoLowerBound(I, D, md, j + 1,
                       Append(acc, [score |-> D[j],
                                    source |-> md[at].source,
                                    text |-> md[at].text]))
         ELSE HitsLoop_NoLowerBound(I, D, md, j + 1, acc)

\* the loop of lines 115-119 from position j on
RECURSIVE HitsLoop(_, _, _, _, _)
HitsLoop(I, D, md, j, acc) ==
    IF j > Len(I) THEN acc
    ELSE IF 0 <= I[j] /\ I[j] < Len(md)
         THEN HitsLoop(I, D, md, j + 1,
                       Append(acc, [score |-> D[j],
                                    source |-> md[I[j] + 1].source,
                                    text |-> md[I[j] + 1].text]))
         ELSE HitsLoop(I, D, md, j + 1, acc)

\* variant: no check that the index file exists
RCheck_NoExistsCheck ==
    /\ rpc = "idle"
    /\ \E q \in Queries, kk \in 1..MaxK :
         /\ query' = q
         /\ k' = kk
    /\ rpre' = Snapshot
    /\ rindex' = _ensure_index(indexFile, DIMENSIONS)
    /\ rpc' = "loaded"
    /\ UNCHANGED <<store, ivars, cvars, metadata, qv, hits, rerr, rcalled, rread>>

\* lines 104-106: raise when there is no index file, else read it
RCheck ==
    /\ rpc = "idle"
    /\ \E q \in Queries, kk \in 1..MaxK :
         /\ query' = q
         /\ k' = kk
    /\ rpre' = Snapshot
    /\ IF ~indexFile.exists
       THEN /\ rerr' = "IndexNotFound"
            /\ rpc' = "raised"
            /\ rindex' = rindex
       ELSE /\ rindex' = read_index(indexFile)
            /\ rpc' = "loaded"
            /\ rerr' = rerr
    /\ UNCHANGED <<store, ivars, cvars, metadata, qv, hits, rcalled, rread>>

\* variant: no early return on empty metadata
RReadMetadata_NoEmptyCheck ==
    /\ rpc = "loaded"
    /\ metadata' = _read_metadata(metaFile)
    /\ rread' = TRUE
    /\ rpc' = "read"
    /\ UNCHANGED <<store, ivars, cvars, query, k, rindex, qv, hits, rerr, rcalled, rpre>>

\* variant: the metadata file is opened in a mode that creates it
RReadMetadata_CreatesFile ==
    /\ rpc = "loaded"
    /\ rread' = TRUE
    /\ metaFile' = [exists |-> TRUE, lines |-> metaFile.lines]
    /\ metadata' = _read_metadata(metaFile)
    /\ rerr' = rerr
    /\ IF metadata' = <<>>
       THEN /\ hits' = <<>>
            /\ rpc' = "done"
       ELSE /\ hits' = hits
            /\ rpc' = "read"
    /\ UNCHANGED <<indexFile, ivars, cvars, query, k, rindex, qv, rcalled, rpre>>

\* lines 107-109: metadata = _read_metadata(); return [] when it is empty
RReadMetadata ==
    /\ rpc = "loaded"
    /\ rread' = TRUE
    /\ IF ~MetadataReadable(metaFile)
       THEN /\ rerr' = "JSONDecodeError"
            /\ rpc' = "raised"
            /\ UNCHANGED <<metadata, hits>>
       ELSE /\ metadata' = _read_metadata(metaFile)
            /\ rerr' = rerr
            /\ IF metadata' = <<>>
               THEN /\ hits' = <<>>
                    /\ rpc' = "done"
               ELSE /\ hits' = hits
                    /\ rpc' = "read"
    /\ UNCHANGED <<store, ivars, cvars, query, k, rindex, qv, rcalled, rpre>>

\* line 111: qv = embed_texts([query]), the provider answers
REmbed ==
    /\ rpc = "read"
    /\ qv' = embed_texts(<<query>>)
    /\ rcalled' = TRUE
    /\ rpc' = "embedded"
    /\ UNCHANGED <<store, ivars, cvars, query, k, rindex, metadata, hits, rerr, rread, rpre>>

\* line 111, the provider call raises: the exception leaves retrieve
REmbedFail ==
    /\ rpc = "read"
    /\ rcalled' = TRUE
    /\ rerr' = "EmbeddingProviderError"
    /\ rpc' = "raised"
    /\ UNCHANGED <<store, ivars, cvars, query, k, rindex, metadata, qv, hits, rread, rpre>>

\* lines 112-120: search, map the ordinals to records, return the hits
RSearch ==
    /\ rpc = "embedded"
    /\ IF Width(qv) # rindex.d
       THEN /\ rerr' = "AssertionError"
            /\ rpc' = "raised"
            /\ hits' = hits
       ELSE /\ LET r == index_search(rindex, qv[1].v, k)
               IN  hits' = HitsLoop(r.I, r.D, metadata, 1, <<>>)
            /\ rpc' = "done"
            /\ rerr' = rerr
    /\ UNCHANGED <<store, ivars, cvars, query, k, rindex, metadata, qv, rcalled, rread, rpre>>

\* the caller has the hits (or the exception) and the call's frame is gone
RLeave ==
    /\ rpc \in {"done", "raised"}
    /\ rpc' = "idle"
    /\ query' = <<>>
    /\ k' = 0
    /\ rindex' = IndexFlatIP(0)
    /\ metadata' = <<>>
    /\ qv' = <<>>
    /\ hits' = <<>>
    /\ rerr' = "none"
    /\ rcalled' = FALSE
    /\ rread' = FALSE
    /\ rpre' = NoSnapshot
    /\ UNCHANGED <<store, ivars, cvars>>

\* ---------- specifications ----------
\* no other call is in progress
Alone(w) == rpc = "idle" /\ \A v \in Writers \ {w} : pc[v] = "idle"
RAlone == \A w \in Writers : pc[w] = "idle"

\* Spec: the calls run to completion one at a time (section 5 of the
\* design: single-threaded per call) and nothing fails
Next ==
    \/ Alone("w1") /\ EnsureIndex("w1")
    \/ Alone("w1") /\ Scan("w1")
    \/ Alone("w1") /\ Embed("w1")
    \/ Alone("w1") /\ Add("w1")
    \/ Alone("w1") /\ WriteIndex("w1")
    \/ Alone("w1") /\ AppendMetadata("w1")
    \/ Alone("w1") /\ ReturnCount("w1")
    \/ Alone("w1") /\ Leave("w1")
    \/ RAlone /\ RCheck
    \/ RAlone /\ RReadMetadata
    \/ RAlone /\ REmbed
    \/ RAlone /\ RSearch
    \/ RAlone /\ RLeave

Spec == Init /\ [][Next]_vars

\* SpecFault: one call at a time, and the provider call, the index write and
\* the metadata append may raise
NextFault ==
    \/ Next
    \/ Alone("w1") /\ EmbedFail("w1")
    \/ Alone("w1") /\ WriteIndexFail("w1")
    \/ Alone("w1") /\ AppendMetadataFail("w1")
    \/ RAlone /\ REmbedFail

SpecFault == Init /\ [][NextFault]_vars

\* SpecCrash: as SpecFault, and the writing process may be killed in the
\* middle of the metadata append
NextCrash ==
    \/ NextFault
    \/ Alone("w1") /\ CrashInAppend("w1")

SpecCrash == Init /\ [][NextCrash]_vars

\* SpecDim: the store was written by a run configured with another embedding
\* width (DIMENSIONS was changed afterwards); calls run one at a time
OtherDim == DIMENSIONS + 1

StoredUnder(dim, units) ==
    [exists |-> TRUE, d |-> dim,
     xb |-> [i \in 1..Len(units) |->
                [v |-> [x \in 1..dim |-> IF x = (Len(units[i].text) % dim) + 1 THEN 1 ELSE 0],
                 of |-> units[i].text]]]

InitDim ==
    /\ \E fs \in Listings :
         LET r == ScanLoop(fs, 1, <<>>, <<>>) IN
         /\ r.new_records # <<>>
         /\ indexFile = StoredUnder(OtherDim, r.new_records)
         /\ metaFile = _append_metadata(NoMetaFile, r.new_records)
    /\ CallsIdle
    /\ ChunkerOff

NextDim ==
    \/ Alone("w1") /\ EnsureIndex("w1")
    \/ Alone("w1") /\ Scan("w1")
    \/ Alone("w1") /\ Embed("w1")
    \/ Alone("w1") /\ Add("w1")
    \/ Alone("w1") /\ Leave("w1")
    \/ RAlone /\ RCheck
    \/ RAlone /\ RReadMetadata
    \/ RAlone /\ REmbed
    \/ RAlone /\ RSearch
    \/ RAlone /\ RLeave

SpecDim == InitDim /\ [][NextDim]_vars

\* SpecChunk: chunk_text alone, applied to every text of up to MaxLen
\* characters and every max_chars up to MaxM
Chars == {"a", " "}
AllTexts == UNION { [1..n -> Chars] : n \in 0..MaxLen }

InitChunk ==
    /\ indexFile = NoIndexFile
    /\ metaFile = NoMetaFile
    /\ CallsIdle
    /\ cpc = "input"
    /\ ctext \in AllTexts
    /\ cmax \in 1..MaxM
    /\ cout = <<>>

\* chunks = chunk_text(text, max_chars)
Chunk ==
    /\ cpc = "input"
    /\ cout' = chunk_text(ctext, cmax)
    /\ cpc' = "output"
    /\ UNCHANGED <<store, ivars, rvars, ctext, cmax>>

NextChunk == Chunk

SpecChunk == InitChunk /\ [][NextChunk]_vars

\* SpecConc: two ingest_directory calls interleave on the same store with no
\* lock around them; nothing fails
NextConc ==
    \E w \in Writers :
        \/ EnsureIndex(w)
        \/ Scan(w)
        \/ Embed(w)
        \/ Add(w)
        \/ WriteIndex(w)
        \/ AppendMetadata(w)
        \/ ReturnCount(w)
        \/ Leave(w)

SpecConc == Init /\ [][NextConc]_vars


\* ---------- properties ----------
IsPrefix(a, b) == Len(a) <= Len(b) /\ SubSeq(b, 1, Len(a)) = a

\* the records of the persisted metadata store
Records == _read_metadata(metaFile)

\* the two stores are aligned: as many records as vectors, and the record at
\* every ordinal holds the text the vector at that ordinal was embedded from
Aligned ==
    /\ Len(Records) = Len(indexFile.xb)
    /\ \A i \in 1..Len(indexFile.xb) :
         /\ Records[i].text = indexFile.xb[i].of
         /\ indexFile.xb[i].v = _normalize(Provider(Records[i].text))

\* C1: starting from an empty store, whenever no ingest_directory call is in
\* progress (every call so far ran to completion, one at a time), the
\* metadata store has as many records as the index has vectors and the record
\* at every ordinal holds the text its vector was embedded from.
C1_Alignment ==
    pc["w1"] \in {"idle", "done"} => Aligned

\* a second ingest has completed on a store that already held units
C1_Witness ==
    /\ pc["w1"] = "done"
    /\ ret["w1"] = 2
    /\ pre["w1"].index.exists
    /\ Len(indexFile.xb) = 3

\* C2: when an ingest_directory call has ended, normally or by an exception,
\* the index file and the metadata file either both hold all of the call's
\* new units or both are as they were before the call.
C2_AtomicAppend ==
    \A w \in Writers :
        pc[w] \in {"done", "raised"} =>
            \/ /\ indexFile = pre[w].index
               /\ metaFile = pre[w].meta
            \/ /\ Len(indexFile.xb) = Len(pre[w].index.xb) + Len(new_records[w])
               /\ Len(metaFile.lines) = Len(pre[w].meta.lines) + Len(new_records[w])

\* C3: when the provider call raised inside ingest_directory or retrieve, the
\* call has ended with that error and both files are exactly as they were
\* when the call began.
C3_EmbedFailureLeavesStores ==
    /\ \A w \in Writers :
         (pc[w] = "raised" /\ err[w] = "EmbeddingProviderError") =>
             (indexFile = pre[w].index /\ metaFile = pre[w].meta)
    /\ (rpc = "raised" /\ rerr = "EmbeddingProviderError") =>
             (indexFile = rpre.index /\ metaFile = rpre.meta)

\* the provider failed inside an ingest on a store that already held units
C3_Witness ==
    /\ pc["w1"] = "raised"
    /\ err["w1"] = "EmbeddingProviderError"
    /\ Len(pre["w1"].index.xb) > 0
    /\ Len(new_records["w1"]) > 0

\* C4 as stated: the step that persists the index finds the call's records
\* already appended to the metadata store.
C4_PersistAfterBothAppends ==
    [][ indexFile' # indexFile =>
            Len(metaFile.lines) = Len(pre["w1"].meta.lines) + Len(new_records["w1"]) ]_vars

\* C4 as amended: within one call the new vectors are added to the in-memory
\* index, then the index is persisted (the metadata store still as the call
\* found it), and only after the persist are the records appended.
C4_AddPersistAppend ==
    [][ /\ indexFile' # indexFile =>
              /\ vecs["w1"] # <<>>
              /\ indexFile'.xb = pre["w1"].index.xb \o vecs["w1"]
              /\ metaFile = pre["w1"].meta
        /\ metaFile' # metaFile =>
              /\ indexFile = write_index(index["w1"])
              /\ indexFile.xb = pre["w1"].index.xb \o vecs["w1"]
              /\ Len(metaFile'.lines) = Len(metaFile.lines) + Len(vecs["w1"]) ]_vars

\* a call has persisted the index and then appended its records
C4_Witness ==
    /\ pc["w1"] = "appended"
    /\ Len(new_records["w1"]) >= 2
    /\ Len(metaFile.lines) = Len(indexFile.xb)

\* C5: whenever two ingest_directory calls that both loaded the same
\* persisted index have both completed with units stored, the stores are
\* desynchronized: the counts differ or some record no longer matches the
\* vector at its ordinal.
C5_RaceDesync ==
    ( /\ pc["w1"] = "done" /\ pc["w2"] = "done"
      /\ ret["w1"] > 0 /\ ret["w2"] > 0
      /\ pre["w1"].index = pre["w2"].index ) => ~Aligned

\* both calls loaded the index before either persisted it and both completed
C5_Witness ==
    /\ pc["w1"] = "done" /\ pc["w2"] = "done"
    /\ ret["w1"] > 0 /\ ret["w2"] > 0
    /\ pre["w1"].index = pre["w2"].index
    /\ Len(indexFile.xb) # Len(metaFile.lines)


\* C6: after every ingest_directory or retrieve call, however it ended, the
\* index file and the metadata file each have what they held before the call
\* as a prefix, and a file that existed still exists.
C6_AppendOnly ==
    /\ \A w \in Writers :
         pc[w] \in {"done", "raised"} =>
             /\ IsPrefix(pre[w].index.xb, indexFile.xb)
             /\ IsPrefix(pre[w].meta.lines, metaFile.lines)
             /\ pre[w].index.exists => indexFile.exists
             /\ pre[w].meta.exists => metaFile.exists
    /\ rpc \in {"done", "raised"} =>
             /\ IsPrefix(rpre.index.xb, indexFile.xb)
             /\ IsPrefix(rpre.meta.lines, metaFile.lines)
             /\ rpre.index.exists => indexFile.exists
             /\ rpre.meta.exists => metaFile.exists

\* an ingest has completed that grew a store which already held two units
C6_Witness ==
    /\ pc["w1"] = "done"
    /\ Len(pre["w1"].index.xb) = 2
    /\ Len(pre["w1"].meta.lines) = 2
    /\ Len(indexFile.xb) = 3
    /\ Len(metaFile.lines) = 3

\* the units of a listing, stated by position: unit number j of file number
\* i comes after every unit of an earlier file and every earlier unit of the
\* same file
UnitsOf(fs) ==
    LET cs(i) == chunk_text(load_text_from_path(fs[i]), MAX_CHARS)
        U == UNION { { <<i, j>> : j \in 1..Len(cs(i)) } : i \in 1..Len(fs) }
        before(ij) == { x \in U : x[1] < ij[1] \/ (x[1] = ij[1] /\ x[2] < ij[2]) }
        at(pos) == CHOOSE ij \in U : Cardinality(before(ij)) = pos - 1
    IN  [pos \in 1..Cardinality(U) |->
            [source |-> fs[at(pos)[1]].path, text |-> cs(at(pos)[1])[at(pos)[2]]]]

\* C7: a completed ingest_directory call returns the number of chunks of all
\* the files it enumerated, and it grew the index file by exactly the vectors
\* of those chunks and the metadata store by exactly their records, both in
\* file order and, within a file, in chunk order.
C7_ReturnsAndStoresAllUnits ==
    pc["w1"] = "done" =>
        LET units == UnitsOf(files["w1"])
            texts == [i \in 1..Len(units) |-> units[i].text]
        IN  /\ ret["w1"] = Len(units)
            /\ indexFile.xb = pre["w1"].index.xb \o embed_texts(texts)
            /\ Records = _read_metadata(pre["w1"].meta) \o units

\* a call over two files, one giving one chunk and one giving two, completed
C7_Witness ==
    /\ pc["w1"] = "done"
    /\ Len(files["w1"]) = 2
    /\ ret["w1"] = 3
    /\ Records[1].source # Records[2].source
    /\ Records[2].source = Records[3].source

\* every file of the listing gives empty or unreadable text
NoUnits(fs) == \A i \in 1..Len(fs) : strip(load_text_from_path(fs[i])) = <<>>

\* C8: a call whose listing gives no units goes from the directory walk
\* straight to returning 0: it never reaches the provider and both files stay
\* exactly as the call found them (no index file is created or rewritten,
\* nothing is appended).
C8_NoUnitsTouchesNothing ==
    \A w \in Writers :
        (pc[w] \notin {"idle", "loaded"} /\ NoUnits(files[w])) =>
            /\ pc[w] = "done"
            /\ ret[w] = 0
            /\ ~called[w]
            /\ indexFile = pre[w].index
            /\ metaFile = pre[w].meta

\* a call over a blank file returned 0 on a store that had never been written
C8_Witness ==
    /\ pc["w1"] = "done"
    /\ Len(files["w1"]) = 1
    /\ NoUnits(files["w1"])
    /\ ret["w1"] = 0
    /\ ~indexFile.exists

\* C9: a retrieve call that began with no index file has raised the
\* index-not-found error without having read the metadata or reached the
\* provider, and both files are as the call found them.
C9_IndexNotFound ==
    (rpc # "idle" /\ ~rpre.index.exists) =>
        /\ rpc = "raised"
        /\ rerr = "IndexNotFound"
        /\ ~rread
        /\ ~rcalled
        /\ indexFile = rpre.index
        /\ metaFile = rpre.meta

\* retrieve was called before any index was persisted
C9_Witness ==
    /\ rpc = "raised"
    /\ rerr = "IndexNotFound"
    /\ ~indexFile.exists

\* C10 as stated: a retrieve call that began on a store with zero metadata
\* records has returned the empty sequence.
C10_EmptyStoreReturnsEmpty ==
    (rpc \in {"done", "raised"} /\ _read_metadata(rpre.meta) = <<>>) =>
        (rpc = "done" /\ hits = <<>>)

\* C10 as amended: a retrieve call that began on a store with an index file
\* and zero metadata records has returned the empty sequence, without
\* reaching the provider.
C10_IndexedEmptyStoreReturnsEmpty ==
    (rpc \notin {"idle", "loaded"} /\ rpre.index.exists /\ _read_metadata(rpre.meta) = <<>>) =>
        (rpc = "done" /\ hits = <<>> /\ rerr = "none" /\ ~rcalled)

\* retrieve returned on a store whose index was persisted but whose records
\* never reached the metadata file
C10_Witness ==
    /\ rpc = "done"
    /\ rpre.index.exists
    /\ Len(rpre.index.xb) > 0
    /\ rpre.meta.lines = <<>>
    /\ hits = <<>>


\* the query vector retrieve works with
QueryVec(q) == _normalize(Provider(q))

\* C11: on an aligned store, a retrieve call that searched returns
\* min(k, number of vectors) hits, at most k, with non-increasing scores;
\* every hit carries the inner product of the query with the vector at one
\* ordinal together with the source and text of the record at that ordinal,
\* no ordinal is used twice, and no vector left out scores higher than a hit.
C11_RankedHits ==
    (rpc = "done" /\ rcalled /\ Aligned) =>
        LET n == Len(indexFile.xb)
            m == Len(hits)
            sc(o) == Dot(QueryVec(query), indexFile.xb[o].v)
        IN  /\ m <= k
            /\ m = Min(k, n)
            /\ \A j \in 1..(m - 1) : hits[j].score >= hits[j + 1].score
            /\ \E f \in [1..m -> 1..n] :
                 /\ \A a, b \in 1..m : a # b => f[a] # f[b]
                 /\ \A j \in 1..m :
                      /\ hits[j].score = sc(f[j])
                      /\ hits[j].source = Records[f[j]].source
                      /\ hits[j].text = Records[f[j]].text
                 /\ \A o \in 1..n :
                      (\A j \in 1..m : f[j] # o) => \A j \in 1..m : sc(o) <= hits[j].score

\* two hits out of three stored units, the better one not the first stored
C11_Witness ==
    /\ rpc = "done"
    /\ k = 2
    /\ Len(indexFile.xb) = 3
    /\ Len(hits) = 2
    /\ hits[1].score > hits[2].score
    /\ hits[1].text = Records[2].text
    /\ hits[2].text = Records[1].text

\* C12: a retrieve call that searched returns exactly the entries of the
\* search whose ordinal is within the metadata it read, in the order of the
\* search, and does not raise: entries with a negative ordinal or an ordinal
\* past the last record are left out.
C12_SkipsOutOfRange ==
    (rpc = "done" /\ rcalled) =>
        LET md == _read_metadata(rpre.meta)
            r == index_search(read_index(rpre.index), QueryVec(query), k)
            InRange == { j \in 1..k : 0 <= r.I[j] /\ r.I[j] < Len(md) }
            pos(j) == Cardinality({ i \in InRange : i <= j })
        IN  /\ rerr = "none"
            /\ Len(hits) = Cardinality(InRange)
            /\ \A j \in InRange :
                 /\ hits[pos(j)].score = r.D[j]
                 /\ hits[pos(j)].source = md[r.I[j] + 1].source
                 /\ hits[pos(j)].text = md[r.I[j] + 1].text

\* the search gave an ordinal past the last record and a filler ordinal, and
\* retrieve returned the one entry that has a record
C12_Witness ==
    /\ rpc = "done"
    /\ k = 3
    /\ Len(rpre.index.xb) = 2
    /\ Len(rpre.meta.lines) = 1
    /\ Len(hits) = 1


\* only the final line of the metadata file is malformed
TornTailOnly(file) ==
    /\ file.lines # <<>>
    /\ ~LineOk(file.lines[Len(file.lines)])
    /\ \A i \in 1..(Len(file.lines) - 1) : LineOk(file.lines[i])

\* the records of the lines before the final one
CompleteRecords(file) == [i \in 1..(Len(file.lines) - 1) |-> Loads(file.lines[i])]

\* C13: a retrieve call that read a metadata file whose only malformed line
\* is the final one did not raise, and it holds every complete record at its
\* ordinal.
C13_TornTailSkipped ==
    (rread /\ TornTailOnly(rpre.meta)) =>
        (rerr = "none" /\ metadata = CompleteRecords(rpre.meta))


\* C14: an ingest_directory call that found an index file of another width
\* than DIMENSIONS has raised, holds no usable index, and both files are as
\* the call found them.
C14_MismatchIsFatal ==
    \A w \in Writers :
        (pc[w] # "idle" /\ pre[w].index.exists /\ pre[w].index.d # DIMENSIONS) =>
            /\ pc[w] = "raised"
            /\ index[w].xb = <<>>
            /\ indexFile = pre[w].index
            /\ metaFile = pre[w].meta


AllWhitespace(t) == \A j \in 1..Len(t) : t[j] \in Whitespace

\* C15: every chunk chunk_text returns has between 1 and max_chars
\* characters, at least one of them not whitespace, and a text that is empty
\* or all whitespace gives no chunk.  (chunk_text reads nothing but its two
\* arguments, so the result is a function of them.)
C15_ChunkBounds ==
    cpc = "output" =>
        /\ \A i \in 1..Len(cout) :
             /\ Len(cout[i]) >= 1
             /\ Len(cout[i]) <= cmax
             /\ ~AllWhitespace(cout[i])
        /\ AllWhitespace(ctext) => cout = <<>>

\* a text with leading whitespace gave two chunks, the first of full length
C15_Witness ==
    /\ cpc = "output"
    /\ cmax = 2
    /\ Len(ctext) = 5
    /\ ctext[1] \in Whitespace
    /\ Len(cout) = 2
    /\ Len(cout[1]) = 2

RECURSIVE Concat(_)
Concat(ss) == IF ss = <<>> THEN <<>> ELSE Head(ss) \o Concat(Tail(ss))

\* C16: with t the trimmed text cut into blocks of max_chars characters from
\* its start, the chunks are, in order, exactly the blocks that are not all
\* whitespace, and their concatenation is t without the characters of the
\* all-whitespace blocks (t itself when there is none).
C16_ChunkCompleteness ==
    cpc = "output" =>
        LET t == strip(ctext)
            n == Len(t)
            block(p) == (p - 1) \div cmax
            blank(b) == \A q \in 1..n : block(q) = b => t[q] \in Whitespace
            KeptBlocks == { b \in 0..((n - 1) \div cmax) : n > 0 /\ ~blank(b) }
            nthBlock(i) == CHOOSE b \in KeptBlocks : Cardinality({ c \in KeptBlocks : c < b }) = i - 1
            KeptPos == { p \in 1..n : ~blank(block(p)) }
            nthPos(i) == CHOOSE p \in KeptPos : Cardinality({ q \in KeptPos : q < p }) = i - 1
        IN  /\ Len(cout) = Cardinality(KeptBlocks)
            /\ \A i \in 1..Len(cout) :
                 cout[i] = SubSeq(t, nthBlock(i) * cmax + 1, Min((nthBlock(i) + 1) * cmax, n))
            /\ Concat(cout) = [i \in 1..Cardinality(KeptPos) |-> t[nthPos(i)]]
            /\ KeptPos = 1..n => Concat(cout) = t

\* a whitespace-only block between two chunks was dropped
C16_Witness ==
    /\ cpc = "output"
    /\ Len(cout) = 2
    /\ Len(Concat(cout)) < Len(strip(ctext))
    /\ cmax = 2


\* a file that contributes units: it could be read and has a character
\* that is not whitespace
Good(f) == f.content # Unreadable /\ ~AllWhitespace(f.content)

RECURSIVE SumLen(_)
SumLen(ss) == IF ss = <<>> THEN 0 ELSE Len(Head(ss)) + SumLen(Tail(ss))

\* C17: a completed ingest_directory call did not raise whatever files were
\* unreadable or empty; such files have no record among the call's new
\* records, every chunk of every other file has one, and the returned count
\* is the number of chunks of those other files.
C17_BestEffort ==
    pc["w1"] = "done" =>
        LET fs == files["w1"]
            new == SubSeq(Records, Len(_read_metadata(pre["w1"].meta)) + 1, Len(Records))
            cs(i) == chunk_text(fs[i].content, MAX_CHARS)
        IN  /\ err["w1"] = "none"
            /\ \A i \in 1..Len(fs) :
                 IF Good(fs[i])
                 THEN \A j \in 1..Len(cs(i)) :
                         \E x \in 1..Len(new) :
                             new[x] = [source |-> fs[i].path, text |-> cs(i)[j]]
                 ELSE \A x \in 1..Len(new) : new[x].source # fs[i].path
            /\ ret["w1"] = SumLen([i \in 1..Len(fs) |-> IF Good(fs[i]) THEN cs(i) ELSE <<>>])

\* a call whose first file was unreadable stored the two chunks of the second
C17_Witness ==
    /\ pc["w1"] = "done"
    /\ Len(files["w1"]) = 2
    /\ files["w1"][1].content = Unreadable
    /\ ret["w1"] = 2
    /\ Len(Records) = Len(_read_metadata(pre["w1"].meta)) + 2

C19_RetrieveReadOnly ==
    rpc \in {"done", "raised"} =>
        /\ indexFile = rpre.index
        /\ metaFile = rpre.meta

\* retrieve returned hits
C19_Witness ==
    /\ rpc = "done"
    /\ rerr = "none"
    /\ Len(hits) >= 2
    /\ indexFile.exists /\ metaFile.exists

\* C20: with calls run to completion one at a time from an empty store,
\* between calls the index file exists exactly when the metadata store has
\* records; a completed ingest leaves an index file exactly when one existed
\* before or the call returned a positive count (so, from the empty store,
\* exactly when some call so far returned a positive count); and a retrieve
\* call that has ended either raised index-not-found or read at least one
\* record.
C20_IndexIffRecords ==
    /\ (pc["w1"] \in {"idle", "done"}) => (indexFile.exists <=> Records # <<>>)
    /\ pc["w1"] = "done" =>
         (indexFile.exists <=> (pre["w1"].index.exists \/ ret["w1"] > 0))
    /\ rpc \in {"done", "raised"} =>
         (rerr = "IndexNotFound" \/ metadata # <<>>)

\* a call that found nothing to store returned 0 on a store that an earlier
\* call had filled: the index file and the records are both still there
C20_Witness ==
    /\ pc["w1"] = "done"
    /\ ret["w1"] = 0
    /\ pre["w1"].index.exists
    /\ indexFile.exists
    /\ Len(Records) = 2

====
